---- MODULE Spec2Model ----
(***************************************************************************)
(* Real-time update channel of the airport-flight-data Python SDK:         *)
(* WebSocketResource (resources/websocket.py).  One caller thread invokes  *)
(* the public methods; every WebSocketApp created by connect() has its own *)
(* background thread (run_forever) that delivers the socket's events to    *)
(* _on_open, _on_error and _on_close.  The methods are cut into steps at   *)
(* the reads and writes of the fields both kinds of thread share:          *)
(* connected, ws, subscriptions.                                           *)
(***************************************************************************)
EXTENDS Integers, Sequences, FiniteSets, TLC

(* ------------------------------ bounds --------------------------------- *)
\* number of WebSocketApp objects connect() may create in one run
MaxSockets == 2
\* number of public method calls the caller thread makes in one run
MaxOps == 2

Sockets == 1..MaxSockets
Caller == 0
Threads == {Caller} \cup Sockets

(* ------------------------------ inputs --------------------------------- *)
Callbacks == {"cb1", "cb2"}
\* unsubscribe_*(..., callback=None)
None == "None"
AirportCodes == {"sfo"}
FlightIds == {"UA123"}
RoutePairs == {<<"SFO", "LAX">>}
Kinds == {"airport", "flight", "route"}

\* a topic derivation that takes the airport code as it is given
upper_verbatim(s) == s

\* str.upper() on the airport codes in use
upper(s) ==
    CASE s = "sfo" -> "SFO"
      [] s = "SFO" -> "SFO"
      [] s = "Sfo" -> "SFO"
      [] s = "lax" -> "LAX"
      [] s = "LAX" -> "LAX"
      [] OTHER -> s

(* ------------------------- topic and payload --------------------------- *)
\* the registry key each subscribe_* / unsubscribe_* derives from its arguments
event(kind, key) ==
    CASE kind = "airport" -> "airport:" \o upper(key[1])
      [] kind = "flight" -> "flight:" \o key[1]
      [] OTHER -> "route:" \o key[1] \o "-" \o key[2]

\* the dict each subscribe_* / unsubscribe_* passes as data: a set of
\* <<field, value>> pairs; the empty set stands for None
data(kind, key) ==
    CASE kind = "airport" -> {<<"airport", key[1]>>}
      [] kind = "flight" -> {<<"flightId", key[1]>>}
      [] OTHER -> {<<"origin", key[1]>>, <<"destination", key[2]>>}

NoData == {}

Keys(kind) ==
    CASE kind = "airport" -> {<<a>> : a \in AirportCodes}
      [] kind = "flight" -> {<<f>> : f \in FlightIds}
      [] OTHER -> RoutePairs

(* ------------------------------ frames --------------------------------- *)
\* a text frame: its two-character marker and the JSON array after it
Frame(marker, body) == [marker |-> marker, body |-> body]

Handshake == Frame("40", <<>>)

\* message = [prefix + event]; if data: message.append(data); "42" + json.dumps(message)
EventFrame(prefix, ev, d) ==
    Frame("42", IF d # NoData THEN <<prefix \o ev, d>> ELSE <<prefix \o ev>>)

(* ----------------------------- registry -------------------------------- *)
\* self.subscriptions is a dict: entries in insertion order; a deleted entry
\* leaves a hole that a running iterator skips
Tomb == [ev |-> "", cbs |-> {}, live |-> FALSE]

Entry(ev, cbs) == [ev |-> ev, cbs |-> cbs, live |-> TRUE]

\* position of the entry of ev, 0 when ev is not a key
Index(subs, ev) ==
    IF \E i \in DOMAIN subs : subs[i].live /\ subs[i].ev = ev
    THEN CHOOSE i \in DOMAIN subs : subs[i].live /\ subs[i].ev = ev
    ELSE 0

\* event in self.subscriptions
Has(subs, ev) == Index(subs, ev) # 0

\* self.subscriptions[event]
Get(subs, ev) == subs[Index(subs, ev)].cbs

\* len(self.subscriptions)
Used(subs) == Cardinality({i \in DOMAIN subs : subs[i].live})

\* the keys of self.subscriptions
Topics(subs) == {subs[i].ev : i \in {j \in DOMAIN subs : subs[j].live}}

\* self.subscriptions[event] = set() without the test before it
SetDefault_always(subs, ev) ==
    IF Has(subs, ev) THEN [subs EXCEPT ![Index(subs, ev)].cbs = {}]
    ELSE Append(subs, Entry(ev, {}))

\* if event not in self.subscriptions: self.subscriptions[event] = set()
SetDefault(subs, ev) ==
    IF Has(subs, ev) THEN subs ELSE Append(subs, Entry(ev, {}))

\* self.subscriptions[event].add(callback)
AddCallback(subs, ev, cb) ==
    [subs EXCEPT ![Index(subs, ev)].cbs = @ \cup {cb}]

\* unsubscribe_* that leaves the set as it is
RemoveCallback_kept(subs, ev, cb) == subs

\* unsubscribe_* that empties the set whatever callback is given
RemoveCallback_all(subs, ev, cb) == [subs EXCEPT ![Index(subs, ev)].cbs = {}]

\* if callback: ...discard(callback)  else: ...clear()
RemoveCallback(subs, ev, cb) ==
    [subs EXCEPT ![Index(subs, ev)].cbs = IF cb # None THEN @ \ {cb} ELSE {}]

\* del self.subscriptions[event]
DelEntry(subs, ev) == [subs EXCEPT ![Index(subs, ev)] = Tomb]

(* -------------------------- inbound messages --------------------------- *)
\* a text message of the server: head is its first two characters (all of
\* it when it is shorter), rest is what message[2:] gives
Message(head, rest) == [head |-> head, rest |-> rest]

NoMessage == Message("", "")

\* a decoded JSON value: its Python type, its text when it is not a list,
\* its items when it is one
Json(t, s, items) == [t |-> t, s |-> s, items |-> items]
JStr(s) == Json("str", s, <<>>)
JInt(s) == Json("int", s, <<>>)
JDict(s) == Json("dict", s, <<>>)
JList(items) == Json("list", "", items)
JNone == Json("NoneType", "null", <<>>)

\* an expression gives a value or raises an exception
Value(v) == [exc |-> "", val |-> v]
Raise(e) == [exc |-> e, val |-> JNone]

\* the payloads of the messages in use; {} is the default of _on_message
Payload == "{\"activeFlights\":3}"
EmptyDict == "{}"

\* json.loads(message[2:]) on the texts in use
loads(text) ==
    CASE text = "[\"airport:SFO\",{\"activeFlights\":3}]" ->
            Value(JList(<<JStr("airport:SFO"), JDict(Payload)>>))
      [] text = "[\"airport:SFO\"]" -> Value(JList(<<JStr("airport:SFO")>>))
      [] text = "[\"airport:sfo\",{\"activeFlights\":3}]" ->
            Value(JList(<<JStr("airport:sfo"), JDict(Payload)>>))
      [] text = "[\"airport\",{\"activeFlights\":3}]" ->
            Value(JList(<<JStr("airport"), JDict(Payload)>>))
      [] text = "[\"flight:UA123\",{\"activeFlights\":3}]" ->
            Value(JList(<<JStr("flight:UA123"), JDict(Payload)>>))
      [] text = "[]" -> Value(JList(<<>>))
      [] text = "{}" -> Value(JDict(EmptyDict))
      [] text = "5" -> Value(JInt("5"))
      [] text = "[5,{}]" -> Value(JList(<<JInt("5"), JDict(EmptyDict)>>))
      [] text = "[[\"airport:SFO\"],{}]" ->
            Value(JList(<<JList(<<JStr("airport:SFO")>>), JDict(EmptyDict)>>))
      [] OTHER -> Raise("JSONDecodeError")

\* the messages the server sends: event frames for a registry key, with and
\* without payload, for names that differ from a key in case or are a prefix
\* of it, a heartbeat, the handshake reply, texts that are not JSON, and JSON
\* that is not a list with a name first
EventMessages ==
    {Message("42", "[\"airport:SFO\",{\"activeFlights\":3}]"),
     Message("42", "[\"airport:SFO\"]"),
     Message("42", "[\"flight:UA123\",{\"activeFlights\":3}]")}

NearMessages ==
    {Message("42", "[\"airport:sfo\",{\"activeFlights\":3}]"),
     Message("42", "[\"airport\",{\"activeFlights\":3}]")}

OtherMessages == {Message("2", ""), Message("40", "{\"sid\":\"x\"}")}

UndecodableMessages == {Message("42", ""), Message("42", "[\"airport:SFO\",")}

MalformedMessages ==
    {Message("42", "[]"), Message("42", "{}"), Message("42", "5"),
     Message("42", "[5,{}]"), Message("42", "[[\"airport:SFO\"],{}]")}

Messages ==
    EventMessages \cup NearMessages \cup OtherMessages \cup UndecodableMessages
        \cup MalformedMessages

\* message.startswith("42")
startswith42(m) == m.head = "42"

\* data[0]
getitem0(d) ==
    CASE d.t = "list" -> IF Len(d.items) > 0 THEN Value(d.items[1]) ELSE Raise("IndexError")
      [] d.t = "dict" -> Raise("KeyError")
      [] OTHER -> Raise("TypeError")

\* data[1] if len(data) > 1 else {}
event_data(d) == IF Len(d.items) > 1 THEN d.items[2].s ELSE EmptyDict

\* hash(event_name), which the dict lookup computes first: a list or a dict
\* raises TypeError
hashable(name) == name.t \notin {"list", "dict"}

\* a lookup that takes any name for a key as soon as the dict has a key
contains_any(subs, name) == name.t = "str" /\ Topics(subs) # {}

\* event_name in self.subscriptions: only a str is equal to a key
contains(subs, name) == name.t = "str" /\ Has(subs, name.s)

(* ------------------------------- state --------------------------------- *)
VARIABLES
    ws,             \* self.ws: the current WebSocketApp, 0 for None
    nsock,          \* number of WebSocketApp objects created so far
    sock,           \* transport state of each WebSocketApp: "none", "connecting",
                    \* "open", then "error" or "dropped" (the connection broke or
                    \* the server closed it) or "shut" (WebSocketApp.close), and
                    \* "lost" once _on_close has reported an unasked-for end
    wire,           \* frames each WebSocketApp has put on its connection
    subscriptions,  \* self.subscriptions
    connected,      \* self.connected
    closing,        \* self._closing
    pc,             \* position of the caller thread and of each socket thread
    ret,            \* where a thread resumes when its connect() returns
    iter,           \* what each socket thread's running _on_open holds: the dict
                    \* iterator of its loop, and (keys) the registry keys at the
                    \* moment it set self.connected
    cur,            \* the event each socket thread's _on_open is replaying
    op,             \* the public method the caller thread runs or ran last
    res,            \* how that method ended
    ops,            \* number of public method calls made so far
    disp,           \* what each socket thread's running _on_message holds: the
                    \* message, the set iterator of its loop, the callbacks it
                    \* has invoked
    gone,           \* history: the <<event, callback>> pairs an unsubscribe_*
                    \* call has discarded from an entry that is still in the
                    \* registry
    topic,          \* the arguments of a subscribe_* / unsubscribe_* pair and
                    \* the registry keys the two methods derive from them
    req             \* AirportFlightDataClient.request(): the attempts made and
                    \* how the call ended

vars == <<ws, nsock, sock, wire, subscriptions, connected, closing,
          pc, ret, iter, cur, op, res, ops, disp, gone, topic, req>>

\* first: the running subscribe_* call has created the entry of its event
NoOp == [name |-> "none", kind |-> "", key |-> <<>>, cb |-> None, first |-> FALSE]
NoIter == [used |-> 0, pos |-> 0, left |-> 0, keys |-> {}]

\* no _on_message is running.  msg: the message; ref: the position of the
\* registry entry whose set the loop iterates, 0 once the dict has dropped
\* that set, which set then holds; used: the size of the set when the
\* iterator was made; cb: the callback being invoked; log: the callbacks
\* invoked, each with the payload it got and how it ended; exc: the exception
\* that has left the handler.  History: at, the set when the iterator was
\* made; since, the number of calls made when the handler began, -1 when a
\* call was running
NoDisp == [msg |-> NoMessage, ref |-> 0, set |-> {}, used |-> 0, cb |-> "",
           log |-> <<>>, exc |-> "", at |-> {}, since |-> 0]

\* self.subscriptions.clear() drops every set from the dict: a set iterator
\* made before keeps its set, with the callbacks it had
Detach(d, subs) == IF d.ref # 0 THEN [d EXCEPT !.ref = 0, !.set = subs[d.ref].cbs] ELSE d

\* no subscribe_* / unsubscribe_* pair is being compared
NoTopic == [kind |-> "", key |-> <<>>, sub |-> "", unsub |-> ""]

\* response.headers.get("Retry-After") when the header is absent
NoHeader == "None"

\* what self.session.request(...) does: it returns a response or raises
Response(s, a) == [t |-> "response", status_code |-> s, retry_after |-> a]
Failure(e) == [t |-> e, status_code |-> 0, retry_after |-> NoHeader]

\* no request() has been called.  retries: self.max_retries; attempts: the
\* calls of self.session.request made; last: last_exception, by its message;
\* got: what the last attempt met; out: the response returned or the
\* exception raised, with its status_code, retry_after and message
NoReq == [retries |-> 0, attempts |-> 0, last |-> "", got |-> Failure(""), pc |-> "none",
          out |-> "", status_code |-> 0, retry_after |-> NoHeader, message |-> ""]

\* WebSocketResource.__init__
InitSocket ==
    /\ ws = 0
    /\ nsock = 0
    /\ sock = [i \in Sockets |-> "none"]
    /\ wire = [i \in Sockets |-> <<>>]
    /\ subscriptions = <<>>
    /\ connected = FALSE
    /\ closing = FALSE
    /\ pc = [t \in Threads |-> IF t = Caller THEN "idle" ELSE "none"]
    /\ ret = [t \in Threads |-> ""]
    /\ iter = [i \in Sockets |-> NoIter]
    /\ cur = [i \in Sockets |-> ""]
    /\ op = NoOp
    /\ res = "none"
    /\ ops = 0
    /\ disp = [i \in Sockets |-> NoDisp]
    /\ gone = {}

Init ==
    /\ InitSocket
    /\ topic = NoTopic
    /\ req = NoReq

(* ---------------------- the WebSocketApp library ----------------------- *)
\* WebSocketApp.send: delivered when the socket is open, an exception otherwise
CanSend == ws # 0 /\ sock[ws] = "open"

\* WebSocketApp.close: shuts the socket down; its thread then reports the close
Shut(s) ==
    IF ws # 0 /\ s[ws] \in {"connecting", "open"} THEN [s EXCEPT ![ws] = "shut"] ELSE s

(* ------------------------- ends of a method ---------------------------- *)
\* the caller's method returns (r = "ok") or raises r; an exception in a
\* socket thread ends the running handler and run_forever goes on
Finish(t, r) ==
    IF t = Caller
    THEN /\ pc' = [pc EXCEPT ![t] = "idle"]
         /\ res' = r
         /\ op' = [NoOp EXCEPT !.name = op.name]
         /\ UNCHANGED <<iter, cur>>
    ELSE /\ pc' = [pc EXCEPT ![t] = "loop"]
         /\ iter' = [iter EXCEPT ![t] = NoIter]
         /\ cur' = [cur EXCEPT ![t] = ""]
         /\ UNCHANGED <<res, op>>

\* a thread goes on at label l
Goto(t, l) == pc' = [pc EXCEPT ![t] = l]

(* ------------------------------ connect -------------------------------- *)
\* connect(), the part after "if self.connected: return": a new WebSocketApp
\* becomes self.ws and its thread is started; the thread that called
\* connect() then waits, and resumes at label l when connect() returns
connect_open(t, l) ==
    /\ nsock < MaxSockets
    /\ nsock' = nsock + 1
    /\ ws' = nsock + 1
    /\ sock' = [sock EXCEPT ![nsock + 1] = "connecting"]
    /\ pc' = [pc EXCEPT ![t] = "connect_wait", ![nsock + 1] = "start"]
    /\ ret' = [ret EXCEPT ![t] = l]

\* connect() without its last test: it returns normally also after a timeout
connect_result_unchecked(c) == "ok"

\* the test that ends connect(): if not self.connected: raise ConnectionError
connect_result(c) == IF c THEN "ok" ELSE "ConnectionError"

\* connect() leaves its wait loop, because self.connected was seen set or
\* because the 5 seconds are over, and tests self.connected once more
connect_wait(t) ==
    /\ pc[t] = "connect_wait"
    /\ ret' = [ret EXCEPT ![t] = ""]
    /\ IF connect_result(connected) = "ok" /\ ret[t] # "return"
       THEN Goto(t, ret[t]) /\ UNCHANGED <<res, op, iter, cur>>
       ELSE Finish(t, connect_result(connected))
    /\ UNCHANGED <<ws, nsock, sock, wire, subscriptions, connected, closing, ops>>
    /\ UNCHANGED <<disp, gone, topic, req>>

\* the caller calls connect()
connect ==
    /\ pc[Caller] = "idle"
    /\ ops' = ops + 1
    /\ IF connected
       THEN /\ pc' = pc
            /\ res' = "ok"
            /\ UNCHANGED <<ws, nsock, sock, ret>>
       ELSE /\ connect_open(Caller, "return")
            /\ res' = "none"
    /\ op' = [NoOp EXCEPT !.name = "connect"]
    /\ UNCHANGED <<wire, subscriptions, connected, closing, iter, cur>>
    /\ UNCHANGED <<disp, gone, topic, req>>

(* ------------------------ _send_subscription --------------------------- *)
\* the frame a thread's _send_subscription call sends: subscribe_* passes the
\* kind and the data dict, _on_open passes the registry key and no data
SubscriptionFrame(t) ==
    IF t = Caller
    THEN EventFrame("subscribe:", op.kind, data(op.kind, op.key))
    ELSE EventFrame("subscribe:", cur[t], NoData)

\* if not self.connected: self.connect()
_send_subscription(t) ==
    /\ pc[t] = "send_subscription"
    /\ IF connected
       THEN /\ Goto(t, "send")
            /\ UNCHANGED <<ws, nsock, sock, ret>>
       ELSE connect_open(t, "send")
    /\ UNCHANGED <<wire, subscriptions, connected, closing, iter, cur, op, res, ops>>
    /\ UNCHANGED <<disp, gone, topic, req>>

\* a send that puts the frame before the frames sent earlier
send_first(t) ==
    /\ pc[t] = "send"
    /\ IF CanSend
       THEN /\ wire' = [wire EXCEPT ![ws] = <<SubscriptionFrame(t)>> \o @]
            /\ IF t = Caller
               THEN Finish(t, "ok")
               ELSE /\ Goto(t, "replay")
                    /\ cur' = [cur EXCEPT ![t] = ""]
                    /\ UNCHANGED <<iter, res, op>>
       ELSE /\ Finish(t, "WebSocketConnectionClosedException")
            /\ UNCHANGED wire
    /\ UNCHANGED <<ws, nsock, sock, subscriptions, connected, closing, ret, ops>>
    /\ UNCHANGED <<disp, gone, topic, req>>

\* self.ws.send("42" + json.dumps(message)); _on_open goes on with its loop
send(t) ==
    /\ pc[t] = "send"
    /\ IF CanSend
       THEN /\ wire' = [wire EXCEPT ![ws] = Append(@, SubscriptionFrame(t))]
            /\ IF t = Caller
               THEN Finish(t, "ok")
               ELSE /\ Goto(t, "replay")
                    /\ cur' = [cur EXCEPT ![t] = ""]
                    /\ UNCHANGED <<iter, res, op>>
       ELSE /\ Finish(t, "WebSocketConnectionClosedException")
            /\ UNCHANGED wire
    /\ UNCHANGED <<ws, nsock, sock, subscriptions, connected, closing, ret, ops>>
    /\ UNCHANGED <<disp, gone, topic, req>>

(* ---------------------------- subscribe_* ------------------------------ *)
\* subscribe_airport / subscribe_flight / subscribe_route is called:
\* if not self.connected: self.connect()
subscribe(kind, key, cb) ==
    /\ pc[Caller] = "idle"
    /\ ops' = ops + 1
    /\ op' = [name |-> "subscribe", kind |-> kind, key |-> key, cb |-> cb, first |-> FALSE]
    /\ res' = "none"
    /\ IF connected
       THEN /\ Goto(Caller, "register")
            /\ UNCHANGED <<ws, nsock, sock, ret>>
       ELSE connect_open(Caller, "register")
    /\ UNCHANGED <<wire, subscriptions, connected, closing, iter, cur>>
    /\ UNCHANGED <<disp, gone, topic, req>>

\* if event not in self.subscriptions: self.subscriptions[event] = set()
subscribe_register ==
    /\ pc[Caller] = "register"
    /\ subscriptions' = SetDefault(subscriptions, event(op.kind, op.key))
    /\ op' = [op EXCEPT !.first = ~Has(subscriptions, event(op.kind, op.key))]
    /\ Goto(Caller, "add")
    /\ UNCHANGED <<ws, nsock, sock, wire, connected, closing, ret, iter, cur, res, ops>>
    /\ UNCHANGED <<disp, gone, topic, req>>

\* self.subscriptions[event].add(callback), then self._send_subscription(kind, data)
subscribe_add ==
    /\ pc[Caller] = "add"
    /\ subscriptions' = AddCallback(subscriptions, event(op.kind, op.key), op.cb)
    /\ Goto(Caller, "send_subscription")
    /\ UNCHANGED <<ws, nsock, sock, wire, connected, closing, ret, iter, cur, op, res, ops>>
    /\ gone' = gone \ {<<event(op.kind, op.key), op.cb>>}
    /\ UNCHANGED <<disp, topic, req>>

(* --------------------------- unsubscribe_* ----------------------------- *)
\* _send_unsubscription with the prefix of _send_subscription
UnsubscriptionFrame_subscribe == EventFrame("subscribe:", op.kind, data(op.kind, op.key))

\* the frame _send_unsubscription sends for the caller's unsubscribe_* call
UnsubscriptionFrame == EventFrame("unsubscribe:", op.kind, data(op.kind, op.key))

\* unsubscribe_airport / unsubscribe_flight / unsubscribe_route is called:
\* if event in self.subscriptions: discard the callback, or clear the set
unsubscribe(kind, key, cb) ==
    /\ pc[Caller] = "idle"
    /\ ops' = ops + 1
    /\ IF Has(subscriptions, event(kind, key))
       THEN /\ subscriptions' = RemoveCallback(subscriptions, event(kind, key), cb)
            /\ Goto(Caller, "unregister")
            /\ op' = [name |-> "unsubscribe", kind |-> kind, key |-> key, cb |-> cb,
                       first |-> FALSE]
            /\ res' = "none"
       ELSE /\ pc' = pc
            /\ op' = [NoOp EXCEPT !.name = "unsubscribe"]
            /\ res' = "ok"
            /\ UNCHANGED subscriptions
    /\ UNCHANGED <<ws, nsock, sock, wire, connected, closing, ret, iter, cur>>
    /\ gone' = IF cb # None /\ Has(subscriptions, event(kind, key))
                  /\ cb \in Get(subscriptions, event(kind, key))
               THEN gone \cup {<<event(kind, key), cb>>}
               ELSE gone
    /\ UNCHANGED <<disp, topic, req>>

\* unsubscribe_* without the del: the emptied entry stays in the dict
Unregister_kept(subs, ev) == subs

\* unsubscribe_* with the del outside its test: the entry is always deleted
Unregister_always(subs, ev) == DelEntry(subs, ev)

\* if not self.subscriptions[event]: del self.subscriptions[event]
Unregister(subs, ev) == IF Get(subs, ev) = {} THEN DelEntry(subs, ev) ELSE subs

\* the entry is deleted when its set is empty, and _send_unsubscription follows
unsubscribe_del ==
    /\ pc[Caller] = "unregister"
    /\ subscriptions' = Unregister(subscriptions, event(op.kind, op.key))
    /\ IF Get(subscriptions, event(op.kind, op.key)) = {}
       THEN Goto(Caller, "send_unsubscription") /\ UNCHANGED <<res, op, iter, cur>>
       ELSE Finish(Caller, "ok")
    /\ UNCHANGED <<ws, nsock, sock, wire, connected, closing, ret, ops>>
    /\ gone' = IF Get(subscriptions, event(op.kind, op.key)) = {}
               THEN {g \in gone : g[1] # event(op.kind, op.key)}
               ELSE gone
    /\ UNCHANGED <<disp, topic, req>>

\* _send_unsubscription with the first statement of _send_subscription:
\* if not self.connected: self.connect()
_send_unsubscription_connects ==
    /\ pc[Caller] = "send_unsubscription"
    /\ IF connected
       THEN /\ Goto(Caller, "unsend")
            /\ UNCHANGED <<ws, nsock, sock, ret>>
       ELSE connect_open(Caller, "unsend")
    /\ UNCHANGED <<res, op, iter, cur>>
    /\ UNCHANGED <<wire, subscriptions, connected, closing, ops>>
    /\ UNCHANGED <<disp, gone, topic, req>>

\* _send_unsubscription: if not self.connected: return
_send_unsubscription ==
    /\ pc[Caller] = "send_unsubscription"
    /\ IF connected
       THEN Goto(Caller, "unsend") /\ UNCHANGED <<res, op, iter, cur>>
       ELSE Finish(Caller, "ok")
    /\ UNCHANGED <<ws, nsock, sock, wire, subscriptions, connected, closing, ret, ops>>
    /\ UNCHANGED <<disp, gone, topic, req>>

\* self.ws.send("42" + json.dumps(message))
unsend ==
    /\ pc[Caller] = "unsend"
    /\ IF CanSend
       THEN /\ wire' = [wire EXCEPT ![ws] = Append(@, UnsubscriptionFrame)]
            /\ Finish(Caller, "ok")
       ELSE /\ Finish(Caller, "WebSocketConnectionClosedException")
            /\ UNCHANGED wire
    /\ UNCHANGED <<ws, nsock, sock, subscriptions, connected, closing, ret, ops>>
    /\ UNCHANGED <<disp, gone, topic, req>>

(* ------------------------------- close --------------------------------- *)
\* close() is called: self._closing = True;
\* if self.ws and self.connected: self.ws.close()
close ==
    /\ pc[Caller] = "idle"
    /\ ops' = ops + 1
    /\ op' = [NoOp EXCEPT !.name = "close"]
    /\ res' = "none"
    /\ closing' = TRUE
    /\ sock' = IF connected THEN Shut(sock) ELSE sock
    /\ Goto(Caller, "close_clear")
    /\ UNCHANGED <<ws, nsock, wire, subscriptions, connected, ret, iter, cur>>
    /\ UNCHANGED <<disp, gone, topic, req>>

\* the join of at most 2 seconds is over; self.subscriptions.clear()
close_clear ==
    /\ pc[Caller] = "close_clear"
    /\ subscriptions' = <<>>
    /\ Goto(Caller, "close_reset")
    /\ UNCHANGED <<ws, nsock, sock, wire, connected, closing, ret, iter, cur, op, res, ops>>
    /\ disp' = [i \in Sockets |-> Detach(disp[i], subscriptions)]
    /\ gone' = {}
    /\ UNCHANGED <<topic, req>>

\* self.connected = False
close_reset ==
    /\ pc[Caller] = "close_reset"
    /\ connected' = FALSE
    /\ Goto(Caller, "close_return")
    /\ UNCHANGED <<ws, nsock, sock, wire, subscriptions, closing, ret, iter, cur, op, res, ops>>
    /\ UNCHANGED <<disp, gone, topic, req>>

\* self._closing = False, and close() returns
close_return ==
    /\ pc[Caller] = "close_return"
    /\ closing' = FALSE
    /\ Finish(Caller, "ok")
    /\ UNCHANGED <<ws, nsock, sock, wire, subscriptions, connected, ret, ops>>
    /\ UNCHANGED <<disp, gone, topic, req>>

(* --------------------------- socket threads ---------------------------- *)
\* run_forever of socket i: the connection is established, _on_open is due
run_forever_open(i) ==
    /\ pc[i] = "start"
    /\ sock[i] = "connecting"
    /\ sock' = [sock EXCEPT ![i] = "open"]
    /\ Goto(i, "on_open")
    /\ UNCHANGED <<ws, nsock, wire, subscriptions, connected, closing, ret, iter, cur, op, res, ops>>
    /\ UNCHANGED <<disp, gone, topic, req>>

\* the network: the connection attempt of socket i fails, or its open
\* connection breaks
socket_error(i) ==
    /\ sock[i] \in {"connecting", "open"}
    /\ sock' = [sock EXCEPT ![i] = "error"]
    /\ UNCHANGED <<ws, nsock, wire, subscriptions, connected, closing, pc, ret, iter, cur, op, res, ops>>
    /\ UNCHANGED <<disp, gone, topic, req>>

\* the network: the server closes the open connection of socket i
socket_close(i) ==
    /\ sock[i] = "open"
    /\ sock' = [sock EXCEPT ![i] = "dropped"]
    /\ UNCHANGED <<ws, nsock, wire, subscriptions, connected, closing, pc, ret, iter, cur, op, res, ops>>
    /\ UNCHANGED <<disp, gone, topic, req>>

\* _on_open, first statement: self.connected = True
_on_open(i) ==
    /\ pc[i] = "on_open"
    /\ connected' = TRUE
    /\ iter' = [iter EXCEPT ![i].keys = Topics(subscriptions)]
    /\ Goto(i, "handshake")
    /\ UNCHANGED <<ws, nsock, sock, wire, subscriptions, closing, ret, cur, op, res, ops>>
    /\ UNCHANGED <<disp, gone, topic, req>>

\* self.ws.send("40"), then the replay loop starts:
\* for event, callbacks in self.subscriptions.items() makes the dict iterator
_on_open_handshake(i) ==
    /\ pc[i] = "handshake"
    /\ IF CanSend
       THEN /\ wire' = [wire EXCEPT ![ws] = Append(@, Handshake)]
            /\ iter' = [iter EXCEPT ![i] = [@ EXCEPT !.used = Used(subscriptions),
                                            !.pos = 0, !.left = Used(subscriptions)]]
            /\ Goto(i, "replay")
            /\ UNCHANGED <<cur, res, op>>
       ELSE /\ Finish(i, "WebSocketConnectionClosedException")
            /\ UNCHANGED wire
    /\ UNCHANGED <<ws, nsock, sock, subscriptions, connected, closing, ret, ops>>
    /\ UNCHANGED <<disp, gone, topic, req>>

\* the entries a dict iterator at position p has not passed
Ahead(subs, p) == {j \in DOMAIN subs : j > p /\ subs[j].live}

Min(S) == CHOOSE x \in S : \A y \in S : x <= y

\* one turn of the replay loop: the iterator raises RuntimeError when the dict
\* has changed size, ends when no entry is ahead, and otherwise yields the
\* next entry: if callbacks: self._send_subscription(event).  An entry found
\* after len(dict) entries were yielded raises RuntimeError from Python 3.8
\* on and is yielded before.
_on_open_replay(i) ==
    /\ pc[i] = "replay"
    /\ LET it == iter[i]
           ahead == Ahead(subscriptions, it.pos)
       IN  IF it.used # Used(subscriptions)
           THEN Finish(i, "RuntimeError")
           ELSE IF ahead = {}
           THEN Finish(i, "ok")
           ELSE \/ /\ it.left = 0
                   /\ Finish(i, "RuntimeError")
                \/ /\ iter' = [iter EXCEPT ![i] = [it EXCEPT !.pos = Min(ahead),
                                   !.left = IF it.left > 0 THEN it.left - 1 ELSE 0]]
                   /\ IF subscriptions[Min(ahead)].cbs # {}
                      THEN /\ cur' = [cur EXCEPT ![i] = subscriptions[Min(ahead)].ev]
                           /\ Goto(i, "send_subscription")
                      ELSE UNCHANGED <<cur, pc>>
                   /\ UNCHANGED <<res, op>>
    /\ UNCHANGED <<ws, nsock, sock, wire, subscriptions, connected, closing, ret, ops>>
    /\ UNCHANGED <<disp, gone, topic, req>>

\* _on_error: reported unless closing, no field is written
_on_error(i) ==
    /\ pc[i] \in {"start", "loop"}
    /\ sock[i] = "error"
    /\ Goto(i, "teardown")
    /\ UNCHANGED <<ws, nsock, sock, wire, subscriptions, connected, closing, ret, iter, cur, op, res, ops>>
    /\ UNCHANGED <<disp, gone, topic, req>>

\* _on_close: self.connected = False; the thread of socket i ends
_on_close(i) ==
    /\ \/ pc[i] = "teardown"
       \/ pc[i] \in {"start", "loop"} /\ sock[i] \in {"dropped", "shut"}
    /\ connected' = FALSE
    /\ sock' = [sock EXCEPT ![i] = IF @ = "shut" THEN "shut" ELSE "lost"]
    /\ Goto(i, "dead")
    /\ UNCHANGED <<ws, nsock, wire, subscriptions, closing, ret, iter, cur, op, res, ops>>
    /\ UNCHANGED <<disp, gone, topic, req>>

(* ---------------------------- _on_message ------------------------------ *)
\* data[0] of the message _on_message is handling, when it is a str
event_name(m) == getitem0(loads(m.rest).val).val.s

\* the set the loop of a running _on_message iterates
IterSet(d, subs) == IF d.ref # 0 THEN subs[d.ref].cbs ELSE d.set

\* the callbacks that loop has yielded
Yielded(d) == {d.log[k][1] : k \in DOMAIN d.log}

\* _on_message with a bare try: no exception is caught
caught_nothing(e) == FALSE

\* except json.JSONDecodeError: pass, the one handler of _on_message's try
caught(e) == e = "JSONDecodeError"

\* _on_message, or the _on_error called for it, returns to run_forever; the
\* message and the exception that left _on_message, if any, stay on record
\* until the next message is read
Return(i) ==
    /\ pc' = [pc EXCEPT ![i] = "loop"]
    /\ disp' = [disp EXCEPT ![i] = [NoDisp EXCEPT !.msg = disp[i].msg,
                                                  !.exc = disp[i].exc]]

\* exception e is raised inside the try of _on_message: it is passed over in
\* silence when the except clause names it, and leaves _on_message otherwise
Leave(i, e) ==
    IF caught(e)
    THEN Return(i)
    ELSE /\ pc' = [pc EXCEPT ![i] = "escaped"]
         /\ disp' = [disp EXCEPT ![i].exc = e]

\* run_forever of socket i has read message m and calls _on_message
run_forever_message(i, m) ==
    /\ pc[i] = "loop"
    /\ sock[i] = "open"
    /\ pc' = [pc EXCEPT ![i] = "on_message"]
    /\ disp' = [disp EXCEPT ![i] = [NoDisp EXCEPT !.msg = m]]
    /\ UNCHANGED <<ws, nsock, sock, wire, subscriptions, connected, closing,
                   ret, iter, cur, op, res, ops, gone,
                   topic, req>>

\* _on_message up to its first look at the registry:
\* if message.startswith("42"): data = json.loads(message[2:]);
\* event_name = data[0]; event_data = ...; if event_name in self.subscriptions
_on_message(i) ==
    /\ pc[i] = "on_message"
    /\ LET m == disp[i].msg
           d == loads(m.rest)
           name == getitem0(d.val)
       IN  IF ~startswith42(m) THEN Return(i)
           ELSE IF d.exc # "" THEN Leave(i, d.exc)
           ELSE IF name.exc # "" THEN Leave(i, name.exc)
           ELSE IF ~hashable(name.val) THEN Leave(i, "TypeError")
           ELSE IF ~contains(subscriptions, name.val) THEN Return(i)
           ELSE /\ pc' = [pc EXCEPT ![i] = "getitem"]
                /\ disp' = [disp EXCEPT ![i].since =
                                IF pc[Caller] = "idle" THEN ops ELSE -1]
    /\ UNCHANGED <<ws, nsock, sock, wire, subscriptions, connected, closing,
                   ret, iter, cur, op, res, ops, gone,
                   topic, req>>

\* for callback in self.subscriptions[event_name]: the entry is looked up
\* again, KeyError when it is no longer there, and the set iterator is made
_on_message_getitem(i) ==
    /\ pc[i] = "getitem"
    /\ LET ev == event_name(disp[i].msg)
       IN  IF ~Has(subscriptions, ev)
           THEN Leave(i, "KeyError")
           ELSE /\ pc' = [pc EXCEPT ![i] = "next"]
                /\ disp' = [disp EXCEPT ![i].ref = Index(subscriptions, ev),
                                        ![i].used = Cardinality(Get(subscriptions, ev)),
                                        ![i].at = Get(subscriptions, ev)]
    /\ UNCHANGED <<ws, nsock, sock, wire, subscriptions, connected, closing,
                   ret, iter, cur, op, res, ops, gone,
                   topic, req>>

\* one turn of the loop: the set iterator raises RuntimeError when the set
\* has changed size, ends the loop when it has yielded every callback, and
\* otherwise yields one it has not yielded, in no particular order
_on_message_next(i) ==
    /\ pc[i] = "next"
    /\ LET d == disp[i]
           now == IterSet(d, subscriptions)
       IN  IF Cardinality(now) # d.used
           THEN Leave(i, "RuntimeError")
           ELSE IF now \ Yielded(d) = {}
           THEN Return(i)
           ELSE \E c \in now \ Yielded(d) :
                   /\ pc' = [pc EXCEPT ![i] = "callback"]
                   /\ disp' = [disp EXCEPT ![i].cb = c]
    /\ UNCHANGED <<ws, nsock, sock, wire, subscriptions, connected, closing,
                   ret, iter, cur, op, res, ops, gone,
                   topic, req>>

\* how the callbacks in use end
Outcomes == {"returns", "raises"}

\* the try around the call without its except clause
except_Exception_missing(outcome) == outcome = "returns"

\* try: callback(event_data) except Exception as e: print(...): whether the
\* loop goes on after the callback has ended
except_Exception(outcome) == outcome \in {"returns", "raises"}

\* callback(event_data): the callback runs and returns or raises
callback(i, outcome) ==
    /\ pc[i] = "callback"
    /\ LET d == disp[i]
           called == [d EXCEPT !.cb = "",
                        !.log = Append(@, <<d.cb, event_data(loads(d.msg.rest).val), outcome>>)]
       IN  IF except_Exception(outcome)
           THEN /\ pc' = [pc EXCEPT ![i] = "next"]
                /\ disp' = [disp EXCEPT ![i] = called]
           ELSE /\ pc' = [pc EXCEPT ![i] = "escaped"]
                /\ disp' = [disp EXCEPT ![i] = [called EXCEPT !.exc = "Exception"]]
    /\ UNCHANGED <<ws, nsock, sock, wire, subscriptions, connected, closing,
                   ret, iter, cur, op, res, ops, gone,
                   topic, req>>

\* an exception has left _on_message: WebSocketApp catches it and calls
\* _on_error with it, which prints it unless closing; run_forever goes on
_on_error_exception(i) ==
    /\ pc[i] = "escaped"
    /\ Return(i)
    /\ UNCHANGED <<ws, nsock, sock, wire, subscriptions, connected, closing,
                   ret, iter, cur, op, res, ops, gone,
                   topic, req>>

(* --------------------------- specification ----------------------------- *)
Next ==
    \/ ops < MaxOps /\ connect
    \/ ops < MaxOps /\ close
    \/ ops < MaxOps /\ \E k \in Kinds : \E key \in Keys(k) : \E cb \in Callbacks :
          subscribe(k, key, cb)
    \/ ops < MaxOps /\ \E k \in Kinds : \E key \in Keys(k) : \E cb \in Callbacks \cup {None} :
          unsubscribe(k, key, cb)
    \/ subscribe_register
    \/ subscribe_add
    \/ unsubscribe_del
    \/ _send_unsubscription
    \/ unsend
    \/ close_clear
    \/ close_reset
    \/ close_return
    \/ \E t \in Threads : connect_wait(t)
    \/ \E t \in Threads : _send_subscription(t)
    \/ \E t \in Threads : send(t)
    \/ \E i \in Sockets : run_forever_open(i)
    \/ \E i \in Sockets : socket_error(i)
    \/ \E i \in Sockets : socket_close(i)
    \/ \E i \in Sockets : _on_open(i)
    \/ \E i \in Sockets : _on_open_handshake(i)
    \/ \E i \in Sockets : _on_open_replay(i)
    \/ \E i \in Sockets : _on_error(i)
    \/ \E i \in Sockets : _on_close(i)

Spec == Init /\ [][Next]_vars

(* ------------------- specification with inbound messages --------------- *)
\* number of public method calls the caller thread makes in one run of
\* SpecDispatch
MaxCalls == 3

\* the subscriptions the caller asks for in SpecDispatch
DispatchKinds == {"airport"}

\* The caller subscribes to and unsubscribes from one airport and closes,
\* while the server sends messages.  The network is reliable and prompt: no
\* connection fails or is closed by the server, and every connect() finds
\* self.connected set before its 5 seconds are over.
NextDispatch ==
    \/ ops < MaxCalls /\ close
    \/ ops < MaxCalls /\ \E k \in DispatchKinds : \E key \in Keys(k) : \E cb \in Callbacks :
          subscribe(k, key, cb)
    \/ ops < MaxCalls /\ \E k \in DispatchKinds : \E key \in Keys(k) :
          \E cb \in Callbacks \cup {None} : unsubscribe(k, key, cb)
    \/ subscribe_register
    \/ subscribe_add
    \/ unsubscribe_del
    \/ _send_unsubscription
    \/ unsend
    \/ close_clear
    \/ close_reset
    \/ close_return
    \/ \E t \in Threads : connected /\ connect_wait(t)
    \/ \E t \in Threads : _send_subscription(t)
    \/ \E t \in Threads : send(t)
    \/ \E i \in Sockets : run_forever_open(i)
    \/ \E i \in Sockets : _on_open(i)
    \/ \E i \in Sockets : _on_open_handshake(i)
    \/ \E i \in Sockets : _on_open_replay(i)
    \/ \E i \in Sockets : _on_close(i)
    \/ \E i \in Sockets : \E m \in Messages : run_forever_message(i, m)
    \/ \E i \in Sockets : _on_message(i)
    \/ \E i \in Sockets : _on_message_getitem(i)
    \/ \E i \in Sockets : _on_message_next(i)
    \/ \E i \in Sockets : \E outcome \in Outcomes : callback(i, outcome)
    \/ \E i \in Sockets : _on_error_exception(i)

SpecDispatch == Init /\ [][NextDispatch]_vars

(* ---------------- specification with two topics and messages ----------- *)
\* the subscriptions the caller asks for in SpecMatch
MatchKinds == {"airport", "flight"}

\* The caller subscribes to an airport and to a flight while the server
\* sends event frames for these topics and for names near them.  The network
\* is reliable and prompt, as in SpecDispatch.
NextMatch ==
    \/ ops < MaxCalls /\ \E k \in MatchKinds : \E key \in Keys(k) : \E cb \in Callbacks :
          subscribe(k, key, cb)
    \/ subscribe_register
    \/ subscribe_add
    \/ \E t \in Threads : connected /\ connect_wait(t)
    \/ \E t \in Threads : _send_subscription(t)
    \/ \E t \in Threads : send(t)
    \/ \E i \in Sockets : run_forever_open(i)
    \/ \E i \in Sockets : _on_open(i)
    \/ \E i \in Sockets : _on_open_handshake(i)
    \/ \E i \in Sockets : _on_open_replay(i)
    \/ \E i \in Sockets : \E m \in EventMessages \cup NearMessages : run_forever_message(i, m)
    \/ \E i \in Sockets : _on_message(i)
    \/ \E i \in Sockets : _on_message_getitem(i)
    \/ \E i \in Sockets : _on_message_next(i)
    \/ \E i \in Sockets : \E outcome \in Outcomes : callback(i, outcome)
    \/ \E i \in Sockets : _on_error_exception(i)

SpecMatch == Init /\ [][NextMatch]_vars

(* ------------- specification with connections the server closes -------- *)
\* The caller subscribes to and unsubscribes from one airport while the
\* server may close the connection at any time; no message comes in.
NextOffline ==
    \/ ops < MaxCalls /\ \E k \in DispatchKinds : \E key \in Keys(k) : \E cb \in Callbacks :
          subscribe(k, key, cb)
    \/ ops < MaxCalls /\ \E k \in DispatchKinds : \E key \in Keys(k) :
          \E cb \in Callbacks \cup {None} : unsubscribe(k, key, cb)
    \/ subscribe_register
    \/ subscribe_add
    \/ unsubscribe_del
    \/ _send_unsubscription
    \/ unsend
    \/ \E t \in Threads : connect_wait(t)
    \/ \E t \in Threads : _send_subscription(t)
    \/ \E t \in Threads : send(t)
    \/ \E i \in Sockets : run_forever_open(i)
    \/ \E i \in Sockets : socket_close(i)
    \/ \E i \in Sockets : _on_open(i)
    \/ \E i \in Sockets : _on_open_handshake(i)
    \/ \E i \in Sockets : _on_open_replay(i)
    \/ \E i \in Sockets : _on_close(i)

SpecOffline == Init /\ [][NextOffline]_vars

(* --------------------------- topic derivation -------------------------- *)
\* the fields every step of the specifications below leaves alone
socket == <<ws, nsock, sock, wire, subscriptions, connected, closing,
            pc, ret, iter, cur, op, res, ops, disp, gone>>

\* airport codes, flight identifiers and route pairs in several spellings
CodeSpellings == {"sfo", "SFO", "Sfo", "lax", "LAX"}
FlightSpellings == {"UA123", "ua123"}

TopicKeys(kind) ==
    CASE kind = "airport" -> {<<a>> : a \in CodeSpellings}
      [] kind = "flight" -> {<<f>> : f \in FlightSpellings}
      [] OTHER -> CodeSpellings \X CodeSpellings

\* event = f"airport:{airport.upper()}" / f"flight:{flight_id}" /
\* f"route:{origin}-{destination}" in subscribe_airport / _flight / _route
subscribe_event(kind, key) ==
    CASE kind = "airport" -> "airport:" \o upper(key[1])
      [] kind = "flight" -> "flight:" \o key[1]
      [] OTHER -> "route:" \o key[1] \o "-" \o key[2]

\* the same three expressions in unsubscribe_airport / _flight / _route
unsubscribe_event(kind, key) ==
    CASE kind = "airport" -> "airport:" \o upper(key[1])
      [] kind = "flight" -> "flight:" \o key[1]
      [] OTHER -> "route:" \o key[1] \o "-" \o key[2]

InitTopic ==
    /\ InitSocket
    /\ req = NoReq
    /\ \E k \in Kinds : \E key \in TopicKeys(k) :
          topic = [NoTopic EXCEPT !.kind = k, !.key = key]

\* subscribe_* computes its registry key
derive_subscribe ==
    /\ topic.sub = ""
    /\ topic' = [topic EXCEPT !.sub = subscribe_event(topic.kind, topic.key)]
    /\ UNCHANGED <<socket, req>>

\* unsubscribe_* computes its registry key
derive_unsubscribe ==
    /\ topic.unsub = ""
    /\ topic' = [topic EXCEPT !.unsub = unsubscribe_event(topic.kind, topic.key)]
    /\ UNCHANGED <<socket, req>>

NextTopic ==
    \/ derive_subscribe
    \/ derive_unsubscribe

SpecTopic == InitTopic /\ [][NextTopic]_vars

(* ----------------------- the REST client's request --------------------- *)
\* largest self.max_retries in use
MaxRetries == 3

\* the status codes the server answers with, and its Retry-After header,
\* which is absent or gives the seconds to wait
Statuses == {200, 204, 400, 401, 403, 404, 422, 429, 500, 503}
RetryAfters == {NoHeader, "30"}

Responses == {Response(s, a) : s \in Statuses, a \in RetryAfters}
Failures == {Failure(e) : e \in {"Timeout", "ConnectionError", "Exception"}}

\* requests.Response.ok: the status is not a 4xx or 5xx
ok(response) == response.status_code < 400

\* an error mapping that knows APIError only
_handle_error_plain(response) ==
    [kind |-> "APIError", status_code |-> response.status_code, retry_after |-> NoHeader]

\* _handle_error: the exception raised for a response, by its class, with
\* its status_code and, for RateLimitError, response.headers.get("Retry-After")
_handle_error(response) ==
    CASE response.status_code = 401 ->
            [kind |-> "AuthenticationError", status_code |-> 401, retry_after |-> NoHeader]
      [] response.status_code = 404 ->
            [kind |-> "NotFoundError", status_code |-> 404, retry_after |-> NoHeader]
      [] response.status_code = 422 \/ response.status_code = 400 ->
            [kind |-> "ValidationError", status_code |-> response.status_code,
             retry_after |-> NoHeader]
      [] response.status_code = 429 ->
            [kind |-> "RateLimitError", status_code |-> 429,
             retry_after |-> response.retry_after]
      [] OTHER ->
            [kind |-> "APIError", status_code |-> response.status_code,
             retry_after |-> NoHeader]

\* the message of the APIError kept as last_exception in each except clause
last_exception(e) ==
    CASE e = "Timeout" -> "Request timeout"
      [] e = "ConnectionError" -> "Connection error"
      [] OTHER -> "Unexpected error"

\* a retry loop that makes one attempt more than self.max_retries
range_inclusive(n) == 0..n

\* range(self.max_retries): the attempt numbers of the loop
range(n) == 0..(n - 1)

InitRequest ==
    /\ InitSocket
    /\ topic = NoTopic
    /\ \E r \in 0..MaxRetries : req = [NoReq EXCEPT !.retries = r, !.pc = "loop"]

\* one turn of the loop of request(): self.session.request(...) is called;
\* a response that is ok is returned, for another one _handle_error raises,
\* and "except APIError: raise" passes that on; a Timeout, a ConnectionError
\* or any other exception is kept as last_exception and the loop goes on
request_attempt(answer) ==
    /\ req.pc = "loop"
    /\ req.attempts \in range(req.retries)
    /\ LET tried == [req EXCEPT !.attempts = @ + 1, !.got = answer]
       IN  IF answer.t = "response"
           THEN IF ok(answer)
                THEN req' = [tried EXCEPT !.pc = "done", !.out = "response",
                                          !.status_code = answer.status_code]
                ELSE LET error == _handle_error(answer)
                     IN  req' = [tried EXCEPT !.pc = "done", !.out = error.kind,
                                              !.status_code = error.status_code,
                                              !.retry_after = error.retry_after,
                                              !.message = "error"]
           ELSE req' = [tried EXCEPT !.last = last_exception(answer.t)]
    /\ UNCHANGED <<socket, topic>>

\* the loop is over: raise last_exception, or APIError("Request failed after
\* all retries") when there is none
request_failed ==
    /\ req.pc = "loop"
    /\ req.attempts \notin range(req.retries)
    /\ req' = [req EXCEPT !.pc = "done", !.out = "APIError",
                          !.message = IF req.last # "" THEN req.last
                                      ELSE "Request failed after all retries"]
    /\ UNCHANGED <<socket, topic>>

NextRequest ==
    \/ \E answer \in Responses \cup Failures : request_attempt(answer)
    \/ request_failed

SpecRequest == InitRequest /\ [][NextRequest]_vars

(* ------------------------------- claims -------------------------------- *)
\* a thread takes a step / the caller starts, or ends, a public method
Steps(t) == pc'[t] # pc[t]
Calls == pc[Caller] = "idle" /\ ops' = ops + 1
Returns == pc[Caller] # "idle" /\ pc'[Caller] = "idle"

\* the handler _on_open of socket i ends in this step, normally or by an exception
HandlerEnds(i) == pc[i] \in {"handshake", "replay", "send", "connect_wait"} /\ pc'[i] = "loop"

\* the frame the replay on socket-open sends for registry key T
ReplayFrame(T) == Frame("42", <<"subscribe:" \o T>>)

\* C1: at every moment at most one socket of the client is active (connecting
\* or open): connect() never creates a second one next to it.
C1_SingleActiveSocket ==
    Cardinality({i \in Sockets : sock[i] \in {"connecting", "open"}}) <= 1

\* C2: the wait of connect() ends normally (connect() returns "ok", or the
\* subscribe_* / _send_subscription that called it goes on) only when
\* self.connected is set at the test that ends the wait; when it is not set,
\* the call ends with ConnectionError, and so does the subscribe_* that
\* triggered it.
C2_ConnectOutcome ==
    [][\A t \in Threads :
         (pc[t] = "connect_wait" /\ Steps(t)) =>
            IF connected
            THEN IF ret[t] = "return"
                 THEN pc'[t] = "idle" /\ res' = "ok"
                 ELSE pc'[t] = ret[t]
            ELSE IF t = Caller
                 THEN pc'[t] = "idle" /\ res' = "ConnectionError"
                 ELSE pc'[t] = "loop"]_vars

\* a subscribe_* call has failed with the ConnectionError of its connect()
C2_Witness ==
    pc[Caller] = "idle" /\ op.name = "subscribe" /\ res = "ConnectionError"

\* C3: on every socket the handshake frame "40" is the first frame sent.
C3_HandshakeFirst ==
    \A i \in Sockets : wire[i] # <<>> => wire[i][1] = Handshake

\* C4: when the _on_open of socket i has run, that socket was sent exactly one
\* replayed subscribe frame for each key the registry held when _on_open set
\* self.connected, and none for any other key.
C4_ReplayPerTopic ==
    [][\A i \in Sockets :
         HandlerEnds(i) =>
            /\ \A T \in iter[i].keys :
                  Cardinality({k \in DOMAIN wire'[i] : wire'[i][k] = ReplayFrame(T)}) = 1
            /\ \A k \in DOMAIN wire'[i] :
                  (wire'[i][k].marker = "42" /\ Len(wire'[i][k].body) = 1) =>
                     \E T \in iter[i].keys : wire'[i][k] = ReplayFrame(T)]_vars

\* C5: every event frame on every socket is "42" and a JSON array whose first
\* element is "subscribe:<kind>" or "unsubscribe:<kind>" with <kind> one of
\* airport, flight, route, followed by at most one object.
C5_EventFrameShape ==
    \A i \in Sockets : \A k \in DOMAIN wire[i] :
       wire[i][k].marker = "42" =>
          /\ Len(wire[i][k].body) \in {1, 2}
          /\ wire[i][k].body[1] \in
                {"subscribe:" \o kd : kd \in Kinds} \cup {"unsubscribe:" \o kd : kd \in Kinds}

\* C6: when close() returns, the state is Disconnected, the registry is empty
\* and the closing flag is cleared, whatever the state it was called in
\* (also right after another close()), and it raises nothing.
C6_CloseResets ==
    [][(pc[Caller] = "close_return" /\ Returns) =>
          /\ ~connected'
          /\ Used(subscriptions') = 0
          /\ ~closing'
          /\ res' = "ok"]_vars

\* socket i's thread delivers an error event to _on_error / a close event,
\* not asked for by close(), to _on_close
ErrorEvent(i) == pc[i] \in {"start", "loop"} /\ pc'[i] = "teardown"
CloseEvent(i) == pc[i] # "dead" /\ pc'[i] = "dead" /\ sock[i] # "shut"

\* C7: every unsolicited socket-error event and every unsolicited
\* socket-close event leaves the state Disconnected.
C7_EventDisconnects ==
    [][\A i \in Sockets : (ErrorEvent(i) \/ CloseEvent(i)) => ~connected']_vars

\* the newest socket was connected (its handshake was sent), has ended
\* unasked-for and its close event is delivered: the caller has made no
\* connection attempt since that disconnect
LostLast == nsock >= 1 /\ sock[nsock] = "lost" /\ wire[nsock] # <<>>

\* C8: after an unsolicited disconnect, as long as the caller invokes nothing,
\* no socket is created and the state stays Disconnected.
C8_NoAutoReconnect ==
    [][(LostLast /\ ~connected /\ pc[Caller] = "idle" /\ pc'[Caller] = "idle") =>
          (~connected' /\ nsock' = nsock)]_vars

\* C9: between two public calls no registry entry has an empty callback set:
\* the call that removes the last callback of an entry also deletes the entry.
C9_NoEmptyEntry ==
    pc[Caller] = "idle" =>
       \A k \in DOMAIN subscriptions : subscriptions[k].live => subscriptions[k].cbs # {}

\* an unsubscribe_* call has returned and has deleted an entry of the registry
C9_Witness ==
    /\ pc[Caller] = "idle"
    /\ op.name = "unsubscribe"
    /\ res = "ok"
    /\ \E k \in DOMAIN subscriptions : ~subscriptions[k].live

\* the caller's unsubscribe_* call has emptied and deleted its entry and ends
\* in this step; the unsubscribe frame of its arguments
UnsubscribeEnds == pc[Caller] \in {"send_unsubscription", "unsend"} /\ Returns
Unsubscribe42 == Frame("42", <<"unsubscribe:" \o op.kind, data(op.kind, op.key)>>)
SentOne(f) == \E i \in Sockets : wire' = [wire EXCEPT ![i] = Append(@, f)]

\* C10 as stated: a call that fully unregisters a registered topic removes it
\* from the registry and sends exactly one unsubscribe frame for it.
C10_ExactlyOneUnsubscribe ==
    [][/\ UnsubscribeEnds =>
             (~Has(subscriptions', event(op.kind, op.key)) /\ SentOne(Unsubscribe42))
       /\ (pc[Caller] \in {"unregister", "send_unsubscription"} /\ Steps(Caller) /\ ~Returns)
             => wire' = wire]_vars

\* C10 as amended: the call removes the topic from the registry and sends at
\* most one unsubscribe frame for it: exactly one, on the current socket, when
\* self.connected is set and that socket is open; none when the state is
\* Disconnected (the call returns) or the socket is not open (the send raises).
C10_AtMostOneUnsubscribe ==
    [][/\ UnsubscribeEnds =>
          /\ ~Has(subscriptions', event(op.kind, op.key))
          /\ IF pc[Caller] = "unsend" /\ CanSend
             THEN wire' = [wire EXCEPT ![ws] = Append(@, Unsubscribe42)] /\ res' = "ok"
             ELSE wire' = wire
          /\ (pc[Caller] = "send_unsubscription") => (~connected /\ res' = "ok")
          /\ (pc[Caller] = "unsend" /\ ~CanSend) => res' # "ok"
       /\ (pc[Caller] = "send_unsubscription" /\ Steps(Caller) /\ connected)
             => pc'[Caller] = "unsend"
       /\ (pc[Caller] \in {"unregister", "send_unsubscription"} /\ Steps(Caller) /\ ~Returns)
             => wire' = wire]_vars

\* an unsubscribe_* call has deleted its entry and its unsubscribe frame is sent
C10_Witness ==
    /\ pc[Caller] = "idle"
    /\ op.name = "unsubscribe"
    /\ res = "ok"
    /\ \E k \in DOMAIN subscriptions : ~subscriptions[k].live
    /\ \E i \in Sockets : \E k \in DOMAIN wire[i] :
          wire[i][k].body # <<>> /\ wire[i][k].body[1] \in {"unsubscribe:" \o kd : kd \in Kinds}

(* ------------------------ claims on the dispatch ----------------------- *)
\* socket i's _on_message returns / an exception leaves it, in this step
MessageReturns(i) == pc[i] \in {"on_message", "getitem", "next"} /\ pc'[i] = "loop"
MessageEscapes(i) == pc[i] \in {"on_message", "getitem", "next", "callback"} /\ pc'[i] = "escaped"

\* the caller has made no call, and was in none, since socket i's _on_message
\* first looked at the registry
Undisturbed(i) == pc[Caller] = "idle" /\ disp[i].since = ops

\* frames "42[\"unsubscribe:...\", ...]" sent so far, on any socket
UnsubscribeFrames ==
    {f \in UNION {{<<i, k>> : k \in DOMAIN wire[i]} : i \in Sockets} :
        /\ wire[f[1]][f[2]].body # <<>>
        /\ wire[f[1]][f[2]].body[1] \in {"unsubscribe:" \o kd : kd \in Kinds}}

\* C11: when two distinct callbacks are registered for a topic and an
\* unsubscribe_* call removes one of them, the call leaves the entry in the
\* registry with the other callback and sends no frame; and an inbound event
\* for that topic that is handled afterwards, with no further call of the
\* caller, is handled without an exception and has invoked, when _on_message
\* returns, the remaining callback once and the removed callback not at all.
C11_RemainingInvoked ==
    [][/\ (Calls /\ op'.name = "unsubscribe" /\ op'.cb \in Callbacks
              /\ Get(subscriptions, event(op'.kind, op'.key)) = Callbacks) =>
             /\ Has(subscriptions', event(op'.kind, op'.key))
             /\ Get(subscriptions', event(op'.kind, op'.key)) = Callbacks \ {op'.cb}
             /\ <<event(op'.kind, op'.key), op'.cb>> \in gone'
             /\ wire' = wire
       /\ (pc[Caller] = "unregister" /\ Steps(Caller)
              /\ Get(subscriptions, event(op.kind, op.key)) # {}) =>
             /\ Returns /\ res' = "ok"
             /\ subscriptions' = subscriptions
             /\ wire' = wire
       /\ \A i \in Sockets : \A g \in gone :
             (/\ pc[i] \in {"getitem", "next", "callback"} /\ Steps(i)
              /\ event_name(disp[i].msg) = g[1]
              /\ Undisturbed(i)) =>
                /\ ~MessageEscapes(i)
                /\ g[2] \notin Yielded(disp'[i]) /\ disp'[i].cb # g[2]
                /\ MessageReturns(i) =>
                      /\ Yielded(disp[i]) = Get(subscriptions, g[1])
                      /\ Len(disp[i].log) = Cardinality(Get(subscriptions, g[1]))]_vars

\* cb1 and cb2 were registered for airport:SFO, unsubscribe_airport has
\* removed cb1 and sent nothing, and an event for airport:SFO that came
\* afterwards has invoked cb2
C11_Witness ==
    /\ pc[Caller] = "idle" /\ op.name = "unsubscribe" /\ res = "ok"
    /\ <<"airport:SFO", "cb1">> \in gone
    /\ Get(subscriptions, "airport:SFO") = {"cb2"}
    /\ UnsubscribeFrames = {}
    /\ \E i \in Sockets :
          /\ pc[i] = "next"
          /\ event_name(disp[i].msg) = "airport:SFO"
          /\ disp[i].since = ops
          /\ Yielded(disp[i]) = {"cb2"}

(* ------------------- claims on subscribe and unsubscribe --------------- *)
\* C12: a subscribe_* call puts a subscribe frame on the wire only when it
\* has created the registry entry of its topic, that is when its callback is
\* the first one of the topic; a call that adds a callback, or the same
\* callback again, to a topic already in the registry sends no frame.
C12_FirstCallbackOnly ==
    [][(pc[Caller] = "send" /\ op.name = "subscribe" /\ wire' # wire) => op.first]_vars

\* the subscribe frames sent so far for topic flight:UA123, on any socket:
\* the one subscribe_flight sends and the one the replay of _on_open sends
FlightFrames ==
    {f \in UNION {{<<i, k>> : k \in DOMAIN wire[i]} : i \in Sockets} :
        wire[f[1]][f[2]] \in {EventFrame("subscribe:", "flight", data("flight", <<"UA123">>)),
                              ReplayFrame("flight:UA123")}}

\* no socket thread is opening a connection or running _on_open
Settled == \A i \in Sockets : pc[i] \in {"none", "loop", "teardown", "dead"}

\* C13: subscribe_flight("UA123", cb) as the first call on a new client
\* (no connection is open) connects; when it has returned, the registration
\* is in the registry, and when the socket-open handler has run as well,
\* exactly one subscribe frame for flight:UA123 has been sent in all.
C13_OneSubscribeFrame ==
    (/\ ops = 1 /\ op.name = "subscribe" /\ pc[Caller] = "idle" /\ res = "ok"
     /\ Has(subscriptions, "flight:UA123")
     /\ Settled) =>
        /\ Get(subscriptions, "flight:UA123") # {}
        /\ Cardinality(FlightFrames) = 1

\* C14: when a callback raises during the dispatch of an inbound event, the
\* exception does not leave _on_message and the loop goes on exactly as after
\* a callback that returns: the connection state, the registry, the sockets
\* and the loop's iterator are as before the call; and a loop that reaches
\* its end, with no call of the caller running beside it, has invoked every
\* callback of the topic's set, each once, whether callbacks raised or not.
C14_CallbackIsolation ==
    [][\A i \in Sockets :
         /\ (pc[i] = "callback" /\ Steps(i)) =>
               /\ pc'[i] = "next"
               /\ disp'[i].exc = ""
               /\ Len(disp'[i].log) = Len(disp[i].log) + 1
               /\ disp'[i].log[Len(disp'[i].log)][1] = disp[i].cb
               /\ <<disp'[i].ref, disp'[i].set, disp'[i].used>>
                     = <<disp[i].ref, disp[i].set, disp[i].used>>
               /\ UNCHANGED <<connected, subscriptions, ws, sock, wire, closing, nsock>>
         /\ (pc[i] = "next" /\ pc'[i] = "loop" /\ Undisturbed(i)) =>
               /\ Yielded(disp[i]) = disp[i].at
               /\ Len(disp[i].log) = Cardinality(disp[i].at)]_vars

\* two callbacks are registered for the topic of an event; the first one
\* invoked has raised, and the second one has been invoked after it
C14_Witness ==
    \E i \in Sockets :
       /\ pc[i] = "next"
       /\ connected
       /\ Undisturbed(i)
       /\ Len(disp[i].log) = 2
       /\ disp[i].log[1][3] = "raises"
       /\ disp[i].log[1][1] # disp[i].log[2][1]
       /\ Get(subscriptions, event_name(disp[i].msg)) = Callbacks


\* the event frames in use that carry {"activeFlights": 3} as their payload
WithPayload ==
    {Message("42", "[\"airport:SFO\",{\"activeFlights\":3}]"),
     Message("42", "[\"flight:UA123\",{\"activeFlights\":3}]")}

\* C15: an inbound event frame with event name E is dispatched if and only
\* if the string E is a key of the registry: a name that differs from a key
\* in case, or is a prefix of one, invokes nothing.  Every callback the
\* dispatch invokes is taken from the entry whose key equals E, whatever
\* other topics hold, and is passed the decoded payload (an empty record when
\* the frame has none); a dispatch with no call of the caller running beside
\* it has invoked, when it ends, exactly the callbacks of that entry.
C15_ExactMatch ==
    [][\A i \in Sockets :
         LET m == disp[i].msg
             E == event_name(m)
         IN  /\ (pc[i] = "on_message" /\ Steps(i) /\ m \in EventMessages \cup NearMessages) =>
                   /\ E \in Topics(subscriptions) => pc'[i] = "getitem"
                   /\ E \notin Topics(subscriptions) =>
                         pc'[i] = "loop" /\ disp'[i].exc = ""
             /\ (pc[i] = "next" /\ pc'[i] = "callback") =>
                   /\ subscriptions[disp[i].ref].live
                   /\ subscriptions[disp[i].ref].ev = E
                   /\ disp'[i].cb \in subscriptions[disp[i].ref].cbs
             /\ (pc[i] = "callback" /\ Steps(i)) =>
                   disp'[i].log[Len(disp'[i].log)][2]
                      = IF m \in WithPayload THEN Payload ELSE EmptyDict
             /\ (pc[i] = "next" /\ pc'[i] = "loop" /\ Undisturbed(i)) =>
                   /\ Yielded(disp[i]) = Get(subscriptions, E)
                   /\ Len(disp[i].log) = Cardinality(Get(subscriptions, E))]_vars

\* cb1 is registered for airport:SFO and cb2 for flight:UA123; the frame
\* 42["airport:SFO",{"activeFlights":3}] has invoked cb1 with the payload
\* and the loop is at its end
C15_Witness ==
    /\ Topics(subscriptions) = {"airport:SFO", "flight:UA123"}
    /\ Get(subscriptions, "airport:SFO") = {"cb1"}
    /\ Get(subscriptions, "flight:UA123") = {"cb2"}
    /\ \E i \in Sockets :
          /\ pc[i] = "next"
          /\ Undisturbed(i)
          /\ disp[i].msg = Message("42", "[\"airport:SFO\",{\"activeFlights\":3}]")
          /\ {disp[i].log[k] : k \in DOMAIN disp[i].log}
                \in {{<<"cb1", Payload, o>>} : o \in Outcomes}


\* the registry has at most one entry for a topic
OneEntryPerTopic(subs) ==
    \A j, k \in DOMAIN subs :
        (subs[j].live /\ subs[k].live /\ subs[j].ev = subs[k].ev) => j = k

\* C16: a subscribe_* call for a topic that is in the registry leaves the
\* registry as it is up to adding its callback to the set of that topic's
\* one entry: no second entry is made, no callback of the entry is lost, and
\* a callback that is in the set already leaves the set unchanged.  A
\* dispatch never invokes a callback it has invoked before, and one that ends
\* with no call of the caller running beside it has invoked each callback of
\* the topic exactly once, however often it was registered.
C16_SetSemantics ==
    [][LET ev == event(op.kind, op.key)
       IN  /\ OneEntryPerTopic(subscriptions')
           /\ (pc[Caller] = "register" /\ Steps(Caller)) =>
                 /\ Has(subscriptions, ev) => subscriptions' = subscriptions
                 /\ Has(subscriptions', ev)
                 /\ \A k \in DOMAIN subscriptions : subscriptions'[k] = subscriptions[k]
           /\ (pc[Caller] = "add" /\ Steps(Caller)) =>
                 /\ Get(subscriptions', ev) = Get(subscriptions, ev) \cup {op.cb}
                 /\ Topics(subscriptions') = Topics(subscriptions)
                 /\ Len(subscriptions') = Len(subscriptions)
                 /\ op.cb \in Get(subscriptions, ev) => subscriptions' = subscriptions
           /\ \A i \in Sockets :
                 /\ (pc[i] = "next" /\ pc'[i] = "callback") =>
                       disp'[i].cb \notin Yielded(disp[i])
                 /\ (pc[i] = "next" /\ pc'[i] = "loop" /\ Undisturbed(i)) =>
                       /\ Len(disp[i].log) = Cardinality(Yielded(disp[i]))
                       /\ Yielded(disp[i]) = Get(subscriptions, event_name(disp[i].msg))]_vars

\* subscribe_airport("sfo", cb1) has been called twice and the registry has
\* the one entry airport:SFO with the one callback cb1; an event for
\* airport:SFO that came afterwards has invoked cb1 once and the loop is at
\* its end
C16_Witness ==
    /\ ops = 2 /\ pc[Caller] = "idle" /\ op.name = "subscribe" /\ res = "ok"
    /\ Len(subscriptions) = 1
    /\ Topics(subscriptions) = {"airport:SFO"}
    /\ Get(subscriptions, "airport:SFO") = {"cb1"}
    /\ \E i \in Sockets :
          /\ Len(wire[i]) = 3
          /\ wire[i][2] = wire[i][3]
          /\ wire[i][3] = EventFrame("subscribe:", "airport", data("airport", <<"sfo">>))
          /\ pc[i] = "next"
          /\ Undisturbed(i)
          /\ event_name(disp[i].msg) = "airport:SFO"
          /\ Len(disp[i].log) = 1
          /\ disp[i].log[1][1] = "cb1"


(* ---------------------- claims on discarded messages ------------------- *)
\* C17: a message that does not start with "42", or whose text after "42"
\* is not JSON, is discarded by _on_message in one step: the handler returns
\* to run_forever without an exception, no callback has been invoked, and
\* the connection state, the registry, the sockets and the frames sent are
\* unchanged.
C17_SilentDiscard ==
    [][\A i \in Sockets :
         (/\ pc[i] = "on_message" /\ Steps(i)
          /\ disp[i].msg \in OtherMessages \cup UndecodableMessages) =>
             /\ pc'[i] = "loop"
             /\ disp[i].log = <<>>
             /\ disp'[i].exc = ""
             /\ UNCHANGED <<connected, subscriptions, ws, sock, wire, closing, nsock>>]_vars

\* a text after "42" that is not JSON has been discarded, without an
\* exception, while both callbacks were registered for airport:SFO on an
\* open connection
C17_Witness ==
    /\ connected
    /\ Has(subscriptions, "airport:SFO")
    /\ Get(subscriptions, "airport:SFO") = Callbacks
    /\ \E i \in Sockets :
          /\ sock[i] = "open"
          /\ pc[i] = "loop"
          /\ disp[i].msg = Message("42", "[\"airport:SFO\",")
          /\ disp[i].exc = ""


\* C18: a message that starts with "42" and whose text is JSON, but not a
\* list with an event name first (an empty list, an object, a number, a list
\* whose first element is a number or a list), is dropped by _on_message: no
\* exception leaves the handler.
C18_MalformedDropped ==
    \A i \in Sockets :
        disp[i].msg \in MalformedMessages => pc[i] # "escaped" /\ disp[i].exc = ""


(* ------------------ claims on the implicit connect --------------------- *)
\* the state Disconnected: self.connected is not set and no socket thread is
\* opening a connection or running _on_open
Disconnected == ~connected /\ Settled

\* C19: a subscribe_* call made while self.connected is not set calls
\* connect(), which creates a socket and waits; the call goes on to register
\* and to send only from a state in which self.connected is set, and sends a
\* frame in its send step only.  No step of an unsubscribe_* call creates a
\* socket or waits for a connection, and an unsubscribe_* call made in the
\* state Disconnected stays in that state until it returns: no step of it,
\* nor any step beside it, sends a frame, and it never comes to its send.
C19_ImplicitConnect ==
    [][/\ (Calls /\ op'.name = "subscribe" /\ ~connected) =>
             /\ nsock' = nsock + 1
             /\ ws' = nsock'
             /\ sock'[ws'] = "connecting"
             /\ pc'[Caller] = "connect_wait"
             /\ wire' = wire
       /\ (op.name = "subscribe" /\ Steps(Caller)) =>
             /\ (pc[Caller] = "connect_wait" /\ pc'[Caller] # "idle") => connected
             /\ pc'[Caller] = "send" => connected
             /\ wire' # wire => pc[Caller] = "send"
       /\ (op'.name = "unsubscribe" /\ (Calls \/ Steps(Caller))) =>
             /\ nsock' = nsock /\ ws' = ws /\ sock' = sock
             /\ pc'[Caller] # "connect_wait"
       /\ (/\ op'.name = "unsubscribe"
           /\ Calls \/ pc[Caller] \in {"unregister", "send_unsubscription"}
           /\ Disconnected) =>
             /\ wire' = wire
             /\ Disconnected'
             /\ pc'[Caller] \in {"idle", "unregister", "send_unsubscription"}]_vars

\* subscribe_* was called on a new client, connected and sent its frame; the
\* server closed the connection; unsubscribe_* for the topic, called in the
\* state Disconnected, has emptied the registry and returned: no second
\* socket was created and the subscribe frame is the last frame sent
C19_Witness ==
    /\ ops = 2 /\ pc[Caller] = "idle" /\ op.name = "unsubscribe" /\ res = "ok"
    /\ Disconnected
    /\ nsock = 1
    /\ Topics(subscriptions) = {}
    /\ \E k \in DOMAIN subscriptions : ~subscriptions[k].live
    /\ UnsubscribeFrames = {}
    /\ Len(wire[1]) > 0
    /\ wire[1][Len(wire[1])] \in
          UNION {{EventFrame("subscribe:", kd, data(kd, key)) : key \in Keys(kd)} : kd \in Kinds}


\* the registry as a mapping: its topics, each with its set of callbacks
Registry(subs) == {<<subs[k].ev, subs[k].cbs>> : k \in {j \in DOMAIN subs : subs[j].live}}

C21_FramesInCallOrder ==
    [][/\ Calls => wire' = wire
       /\ (Steps(Caller) /\ wire' # wire) =>
             /\ pc[Caller] \in {"send", "unsend"}
             /\ ws # 0 /\ ws' = ws
             /\ wire' = [wire EXCEPT ![ws] =
                   Append(@, EventFrame(IF op.name = "subscribe" THEN "subscribe:"
                                        ELSE "unsubscribe:", op.kind, data(op.kind, op.key)))]
             /\ op.name \in {"subscribe", "unsubscribe"}
             /\ (pc[Caller] = "send") = (op.name = "subscribe")
             /\ Returns
             /\ res' = "ok"
       /\ \A i \in Sockets :
             (pc[i] = "replay" /\ pc'[i] = "send_subscription") =>
                /\ iter'[i].pos > iter[i].pos
                /\ cur'[i] = subscriptions[iter'[i].pos].ev
                /\ \A k \in DOMAIN subscriptions :
                      (iter[i].pos < k /\ k < iter'[i].pos) => ~subscriptions[k].live]_vars

\* subscribe_flight("UA123", cb) and then unsubscribe_flight("UA123") have
\* been called and have sent a frame each: the subscribe frame is on the wire
\* before the unsubscribe frame
C21_Witness ==
    /\ ops = 2 /\ pc[Caller] = "idle" /\ op.name = "unsubscribe" /\ res = "ok"
    /\ \E i \in Sockets : \E j, k \in DOMAIN wire[i] :
          /\ j < k
          /\ k = Len(wire[i])
          /\ wire[i][j] = EventFrame("subscribe:", "flight", data("flight", <<"UA123">>))
          /\ wire[i][k] = EventFrame("unsubscribe:", "flight", data("flight", <<"UA123">>))


(* ----------------------- claims on the two threads --------------------- *)
\* C22: the flush of _on_open and the calls of the caller do not interfere:
\* a socket thread sends a replayed subscribe frame only for a topic that is
\* in the registry when the frame is sent, and the replay loop ends only by
\* having passed every entry of a registry that has not changed in size
\* since the loop began, never with an exception.
C22_AtomicFlush ==
    [][\A i \in Sockets :
         /\ (pc[i] = "send" /\ Steps(i) /\ wire' # wire) =>
               cur[i] \in Topics(subscriptions)
         /\ (pc[i] = "replay" /\ pc'[i] = "loop") =>
               /\ iter[i].used = Used(subscriptions)
               /\ Ahead(subscriptions, iter[i].pos) = {}]_vars


(* --------------------- claims on the topic derivation ------------------ *)
\* an airport code with its letters in lower case
Fold(c) ==
    CASE c \in {"sfo", "SFO", "Sfo"} -> "sfo"
      [] c \in {"lax", "LAX"} -> "lax"
      [] OTHER -> c

\* C23: subscribe_* and the matching unsubscribe_* derive the same registry
\* key from the same arguments, the key the two calls of the model use; two
\* airport codes give the same key exactly when they differ in letter case
\* only; two flight identifiers, and two route pairs, give the same key only
\* when they are the same, spelling included, so that route (sfo, lax) and
\* route (SFO, LAX) are two topics.
C23_TopicDerivation ==
    /\ (topic.sub # "" /\ topic.unsub # "") => topic.sub = topic.unsub
    /\ topic.sub # "" => topic.sub = event(topic.kind, topic.key)
    /\ topic.unsub # "" => topic.unsub = event(topic.kind, topic.key)
    /\ (topic.kind = "airport" /\ topic.sub # "") =>
          \A c \in CodeSpellings :
              (subscribe_event("airport", <<c>>) = topic.sub) = (Fold(c) = Fold(topic.key[1]))
    /\ (topic.kind \in {"flight", "route"} /\ topic.sub # "") =>
          \A key \in TopicKeys(topic.kind) :
              (subscribe_event(topic.kind, key) = topic.sub) = (key = topic.key)
    /\ subscribe_event("route", <<"sfo", "lax">>) # subscribe_event("route", <<"SFO", "LAX">>)

\* subscribe_airport and unsubscribe_airport have both derived airport:SFO
\* from the code "Sfo"
C23_Witness ==
    /\ topic.kind = "airport" /\ topic.key = <<"Sfo">>
    /\ topic.sub = "airport:SFO"
    /\ topic.unsub = "airport:SFO"


(* ----------------------- claims on the REST client --------------------- *)
\* the exception classes of the SDK's API errors
ErrorKinds ==
    {"AuthenticationError", "NotFoundError", "ValidationError", "RateLimitError", "APIError"}

\* C24: when request() has received a response that is not ok, it has
\* raised an exception of the one class its status code selects: 401
\* AuthenticationError, 404 NotFoundError, 400 and 422 ValidationError, 429
\* RateLimitError, whose retry_after is the value of the Retry-After header
\* (None when there is none), and any other status APIError; the exception
\* carries the status code.
C24_ErrorMapping ==
    (req.pc = "done" /\ req.got.t = "response" /\ req.got.status_code >= 400) =>
        /\ req.out \in ErrorKinds
        /\ req.out = "AuthenticationError" <=> req.got.status_code = 401
        /\ req.out = "NotFoundError" <=> req.got.status_code = 404
        /\ req.out = "ValidationError" <=> req.got.status_code \in {400, 422}
        /\ req.out = "RateLimitError" <=> req.got.status_code = 429
        /\ req.out = "APIError" <=> req.got.status_code \notin {400, 401, 404, 422, 429}
        /\ req.out = "RateLimitError" => req.retry_after = req.got.retry_after
        /\ req.status_code = req.got.status_code

\* a 429 response with Retry-After: 30 has been answered with a
\* RateLimitError whose retry_after is 30
C24_Witness ==
    /\ req.pc = "done"
    /\ req.got = Response(429, "30")
    /\ req.out = "RateLimitError"
    /\ req.retry_after = "30"


C26_CloseIsFinal ==
    [][/\ (pc[Caller] = "close_return" /\ Returns) =>
             \A i \in Sockets : sock'[i] \notin {"connecting", "open"}
       /\ (pc[Caller] = "idle" /\ op.name = "close" /\ ~connected /\ ~Calls) =>
             /\ ~connected'
             /\ wire' = wire]_vars


(* --------------- claims on a registry changed during dispatch ---------- *)
\* C27: a dispatch that has found the entry of its topic ends by returning
\* to run_forever, never with an exception, and has then invoked every
\* callback that was in the topic's set when the loop began, whatever the
\* caller's subscribe_*, unsubscribe_* and close() calls do to the set and
\* to the registry meanwhile.
C27_SnapshotDispatch ==
    [][\A i \in Sockets :
         /\ (pc[i] \in {"getitem", "next", "callback"}) => pc'[i] # "escaped"
         /\ (pc[i] = "next" /\ pc'[i] = "loop") => disp[i].at \subseteq Yielded(disp[i])]_vars


(* ------------------ claims on a failed implicit connect ---------------- *)
\* C28: when the first call on a new client is a subscribe_* and it ends
\* with the ConnectionError of a connect() it made, the registry is empty
\* as before the call and no frame other than handshakes has been sent.
C28_FailedConnectNoEffect ==
    [][(ops = 1 /\ op.name = "subscribe" /\ Returns /\ res' = "ConnectionError") =>
          /\ subscriptions' = <<>>
          /\ \A i \in Sockets : \A k \in DOMAIN wire'[i] : wire'[i][k] = Handshake]_vars


(* ------------------------- claims on the sends ------------------------- *)
\* C29: when a thread comes to a self.ws.send, of a handshake, of a replayed
\* or a requested subscribe frame or of an unsubscribe frame, the state is
\* Connected and self.ws is a socket that has opened, not one that is still
\* connecting; and when a socket thread sends from its _on_open, self.ws is
\* that thread's socket, the one whose open event the handler is for.
C29_SendOnOpenSocket ==
    [][\A t \in Threads :
         (pc[t] \in {"handshake", "send", "unsend"} /\ Steps(t)) =>
             /\ connected
             /\ ws # 0 /\ sock[ws] # "connecting"
             /\ t # Caller => ws = t]_vars

(* ------------------- claims on unsubscribe without effect -------------- *)
\* C30: an unsubscribe_* call whose topic is not in the registry returns at
\* once, and one whose callback is not in the set of its topic returns after
\* the test of the set; in both cases the registry, the sockets and the frames
\* sent are as they were before the call, whether the state is Connected,
\* Disconnected or closing.
C30_NothingToRemove ==
    [][/\ (Calls /\ op'.name = "unsubscribe") =>
             \/ /\ op'.kind \in Kinds
                /\ Has(subscriptions, event(op'.kind, op'.key))
                /\ op'.cb \in Get(subscriptions, event(op'.kind, op'.key)) \cup {None}
             \/ /\ op'.kind \in Kinds
                /\ Has(subscriptions, event(op'.kind, op'.key))
                /\ pc'[Caller] = "unregister"
                /\ UNCHANGED <<subscriptions, wire, ws, nsock, sock, connected, closing>>
             \/ /\ pc'[Caller] = "idle" /\ res' = "ok"
                /\ UNCHANGED <<subscriptions, wire, ws, nsock, sock, connected, closing>>
       /\ (/\ pc[Caller] = "unregister" /\ Steps(Caller)
           /\ op.cb # None /\ <<event(op.kind, op.key), op.cb>> \notin gone) =>
             /\ Returns /\ res' = "ok"
             /\ Registry(subscriptions') = Registry(subscriptions)
             /\ UNCHANGED <<subscriptions, wire, ws, nsock, sock, connected, closing>>]_vars

\* cb1 was registered for a topic in state Connected and the second call, an
\* unsubscribe_* of another callback or of another topic, has returned: the
\* entry still holds cb1 alone and no unsubscribe frame was sent
C30_Witness ==
    /\ ops = 2 /\ pc[Caller] = "idle" /\ op.name = "unsubscribe" /\ res = "ok"
    /\ connected
    /\ \E ev \in Topics(subscriptions) : Registry(subscriptions) = {<<ev, {"cb1"}>>}
    /\ UnsubscribeFrames = {}

====
